---------------------------- MODULE Spec2Model ----------------------------
(***************************************************************************)
(* Model of epl-metrics-lab: the Elo rating engine (utils.py), the season  *)
(* replay and the forecasters (team_analyzer.py), the player scorer        *)
(* (player_analyzer.py: filter, scaling, weighted score, ranking) and the  *)
(* run of main.py.                                                         *)
(*                                                                         *)
(* Numbers.  The program computes in Python floats (binary64).  A float is *)
(* modelled as an integer n that stands for n / Unit, and every float      *)
(* operation rounds its exact result to MantBits significant bits, ties to *)
(* even, as IEEE-754 does with 53 bits.  Below 2^MantBits units the grid   *)
(* is one unit (the model's subnormal range).  A missing value (pandas     *)
(* NaN) is the sentinel NaN.                                               *)
(***************************************************************************)
EXTENDS Integers, Sequences, FiniteSets, TLC

\* ------------------------------------------------------------------------
\* Bounds of the model
\* ------------------------------------------------------------------------
MantBits == 14

FracBits == MantBits + 2

Unit == 2^FracBits

\* ------------------------------------------------------------------------
\* config.py
\* ------------------------------------------------------------------------
ELO_SCALING == 300

ELO_K_FACTOR == 32

INITIAL_ELO == 1500

HOME_ADVANTAGE == 100

\* ------------------------------------------------------------------------
\* Float arithmetic
\* ------------------------------------------------------------------------
NaN == 0 - 2^30

IsNaN(x) == x = NaN

Abs(n) == IF n < 0 THEN 0 - n ELSE n

Sign(n) == IF n < 0 THEN 0 - 1 ELSE 1

Max2(x, y) == IF x >= y THEN x ELSE y

\* number of bits of a natural number below 2^30
BitLen(n) == IF n = 0 THEN 0 ELSE CHOOSE k \in 1..30 : 2^(k-1) <= n /\ n < 2^k

\* the spacing of the floats around a value of n units
Ulp(n) == 2^Max2(0, BitLen(Abs(n)) - MantBits)

\* an int converted to float (exact for the ints the model uses)
F(i) == i * Unit

\* the exact value num/den (in units, den > 0) rounded to the nearest float,
\* ties to even
RoundRat(num, den) ==
    LET a  == Abs(num)
        u  == Ulp(a \div den)
        D  == den * u
        q  == a \div D
        r  == a % D
        up == (2 * r > D) \/ (2 * r = D /\ q % 2 = 1)
    IN  Sign(num) * (IF up THEN q + 1 ELSE q) * u

Rnd(n) == RoundRat(n, 1)

FAdd(x, y) == Rnd(x + y)

FSub(x, y) == Rnd(x - y)

\* float times int (the int converts exactly)
FMulInt(i, x) == Rnd(i * x)

\* float divided by int
FDivInt(x, i) == RoundRat(x, i)

\* long division: <<floor(a * 2^n / b), remainder>> for 0 <= a, 0 < b < 2^29
RECURSIVE LongDiv(_, _, _, _)
LongDiv(q, r, b, n) ==
    IF n = 0 THEN <<q, r>>
    ELSE LET r2 == 2 * r
         IN  IF r2 >= b THEN LongDiv(2 * q + 1, r2 - b, b, n - 1)
                        ELSE LongDiv(2 * q, r2, b, n - 1)

\* float divided by float, y # 0: the exact quotient x/y rounded once
FDiv(x, y) ==
    LET a   == Abs(x)
        b   == Abs(y)
        qr  == LongDiv(a \div b, a % b, b, FracBits)
        q   == qr[1]
        u   == Ulp(q)
        hi  == q \div u
        lo  == q % u
        \* compare the discarded part lo + r/b with u/2
        gt  == IF u = 1 THEN 2 * qr[2] > b
                        ELSE (2 * lo > u) \/ (2 * lo = u /\ qr[2] > 0)
        eq  == IF u = 1 THEN 2 * qr[2] = b
                        ELSE 2 * lo = u /\ qr[2] = 0
        up  == gt \/ (eq /\ hi % 2 = 1)
    IN  Sign(x) * Sign(y) * (IF up THEN hi + 1 ELSE hi) * u

\* ------------------------------------------------------------------------
\* 10 ** y: computed to PowBits fractional bits as 2^n * e^x, then rounded
\* ------------------------------------------------------------------------
PowBits == 24

PowUnit == 2^PowBits

\* log2(10) and ln(2) in units of 2^-24
LOG2_10 == 55732705

LN2 == 11629080

ExpTerms == 12

\* floor(a * b / 2^24) for 0 <= a, b < 2^27, without leaving 31 bits
MulFix(a, b) ==
    LET ah == a \div 4096
        al == a % 4096
        bh == b \div 4096
        bl == b % 4096
    IN  ah * bh + ((ah * bl + al * bh + ((al * bl) \div 4096)) \div 4096)

\* 1 + x/i * (1 + x/(i+1) * (...)): the Taylor series of e^x, Horner form
RECURSIVE ExpSeries(_, _)
ExpSeries(x, i) ==
    IF i > ExpTerms THEN PowUnit
    ELSE PowUnit + (MulFix(x, ExpSeries(x, i + 1)) \div i)

Pow10(y) ==
    LET y24 == Abs(y) * 2^(PowBits - FracBits)
        m   == MulFix(y24, LOG2_10)
        z   == IF y < 0 THEN 0 - m ELSE m
        n   == z \div PowUnit
        f   == z % PowUnit
        e   == ExpSeries(MulFix(f, LN2), 1)
        s   == n + FracBits - PowBits
    IN  IF s >= 0 THEN Rnd(e * 2^s) ELSE RoundRat(e, 2^(0 - s))

\* ------------------------------------------------------------------------
\* utils.py
\* ------------------------------------------------------------------------
\* mutant: the exponent takes the absolute rating difference
win_probability_abs(team_a_elo, team_b_elo, scaling) ==
    FDiv(F(1), FAdd(F(1),
        Pow10(FDivInt(Abs(FSub(team_b_elo, team_a_elo)), scaling))))

\* mutant: the exponent takes a - b instead of b - a
win_probability_swapped(team_a_elo, team_b_elo, scaling) ==
    FDiv(F(1), FAdd(F(1), Pow10(FDivInt(FSub(team_a_elo, team_b_elo), scaling))))

win_probability(team_a_elo, team_b_elo, scaling) ==
    FDiv(F(1), FAdd(F(1), Pow10(FDivInt(FSub(team_b_elo, team_a_elo), scaling))))

\* mutant: team B is scored with team A's result instead of 1 - result
update_elo_same_result(team_a_elo, team_b_elo, result, k, scaling) ==
    LET expected_a == win_probability(team_a_elo, team_b_elo, scaling)
        expected_b == FSub(F(1), expected_a)
        new_elo_a  == FAdd(team_a_elo, FMulInt(k, FSub(result, expected_a)))
        new_elo_b  == FAdd(team_b_elo, FMulInt(k, FSub(result, expected_b)))
    IN  <<new_elo_a, new_elo_b>>

\* update_elo: result is 1, 0.5 or 0 as a float; k is an int
update_elo(team_a_elo, team_b_elo, result, k, scaling) ==
    LET expected_a == win_probability(team_a_elo, team_b_elo, scaling)
        expected_b == FSub(F(1), expected_a)
        new_elo_a  == FAdd(team_a_elo, FMulInt(k, FSub(result, expected_a)))
        new_elo_b  == FAdd(team_b_elo,
                           FMulInt(k, FSub(FSub(F(1), result), expected_b)))
    IN  <<new_elo_a, new_elo_b>>

\* ------------------------------------------------------------------------
\* State
\* ------------------------------------------------------------------------
VARIABLES
    pc,           \* position of the running call
    elo_args,     \* rating engine: the arguments of the call
    elo_ret,      \* rating engine: what update_elo returned, <<>> before
    wp_ret,       \* rating engine: <<win_probability(a,b), win_probability(b,a)>>
    rematches,    \* rating engine: how many times the result was fed back
    team_df,      \* season: the match table (set of rows)
    caller,       \* season: "direct" (analyze_team) or "all" (analyze_all_teams)
    todo,         \* season: analyze_all_teams' teams still to replay
    team_name,    \* season: the tracked team of the running analyze_team
    target_team,  \* season: the tracked team's rows, sorted by round
    idx,          \* season: rows of target_team already processed
    team_elos,    \* season: analyze_team's rating table
    elo_history,  \* season: analyze_team's history
    all_records,  \* season: analyze_all_teams' histories, tagged with the team
    schedule_df,     \* forecast: the fixture table (set of rows)
    elo_history_df,  \* forecast: the rating history table (sequence of rows)
    fc_team_elos,    \* forecast: forecast_all_matches' team_elos
    matches,         \* forecast: the fixtures of the window, sorted
    fidx,            \* forecast: fixtures of matches already processed
    rows,            \* forecast: the forecast rows so far
    scorer,       \* players: the scorer's position tag
    df,           \* players: the scorer's player table (self.df)
    filtered_df,  \* players: self.filtered_df
    series,       \* players: the series handed to normalize
    norm_ret,     \* players: what normalize returned
    top_ret,      \* players: what top_n returned
    wr_schedule_df,  \* WinRateForecast: self.schedule_df
    wr_team_elos,    \* WinRateForecast: self.team_elos
    wr_team_name,    \* WinRateForecast: forecast's argument team_name
    future_matches,  \* WinRateForecast: forecast's future_matches
    wr_idx,          \* WinRateForecast: rows of future_matches already processed
    forecast_rows,   \* WinRateForecast: forecast's forecast_rows
    existing,     \* main: the data files that exist
    complete,     \* main: the data files that hold every column the run reads
    printed,      \* main: the messages printed so far
    outputs       \* main: the output files written so far

eloVars == <<elo_args, elo_ret, wp_ret, rematches>>

seasonVars == <<team_df, caller, todo, team_name, target_team, idx, team_elos,
                elo_history, all_records>>

forecastVars == <<schedule_df, elo_history_df, fc_team_elos, matches, fidx, rows>>

playerVars == <<scorer, df, filtered_df, series, norm_ret, top_ret>>

classVars == <<wr_schedule_df, wr_team_elos, wr_team_name, future_matches,
               wr_idx, forecast_rows>>

mainVars == <<existing, complete, printed, outputs>>

vars == <<pc, eloVars, seasonVars, forecastVars, playerVars, classVars, mainVars>>

EloIdle ==
    /\ elo_args = <<>>
    /\ elo_ret = <<>>
    /\ wp_ret = <<>>
    /\ rematches = 0

SeasonIdle ==
    /\ team_df = {}
    /\ caller = "none"
    /\ todo = <<>>
    /\ team_name = "none"
    /\ target_team = <<>>
    /\ idx = 0
    /\ team_elos = <<>>
    /\ elo_history = <<>>
    /\ all_records = <<>>

ForecastIdle ==
    /\ schedule_df = {}
    /\ elo_history_df = <<>>
    /\ fc_team_elos = <<>>
    /\ matches = <<>>
    /\ fidx = 0
    /\ rows = <<>>

\* None
None == <<"None">>

PlayersIdle ==
    /\ scorer = "none"
    /\ df = <<>>
    /\ filtered_df = None
    /\ series = <<>>
    /\ norm_ret = None
    /\ top_ret = None

ClassIdle ==
    /\ wr_schedule_df = {}
    /\ wr_team_elos = <<>>
    /\ wr_team_name = "none"
    /\ future_matches = <<>>
    /\ wr_idx = 0
    /\ forecast_rows = <<>>

MainIdle ==
    /\ existing = {}
    /\ complete = {}
    /\ printed = <<>>
    /\ outputs = {}

\* ------------------------------------------------------------------------
\* The rating engine called on its own (utils.py)
\* ------------------------------------------------------------------------
MaxRematch == 2

RatingInputs == {F(1000), F(1450), F(1500), F(1600)}

ResultInputs == {F(1), Unit \div 2, F(0)}

KInputs == {ELO_K_FACTOR, 20}

ScalingInputs == {ELO_SCALING, 400}

EloInit ==
    /\ pc = "start"
    /\ elo_args \in [a : RatingInputs, b : RatingInputs, result : ResultInputs,
                     k : KInputs, scaling : ScalingInputs]
    /\ elo_ret = <<>>
    /\ wp_ret = <<>>
    /\ rematches = 0
    /\ SeasonIdle
    /\ ForecastIdle
    /\ PlayersIdle
    /\ ClassIdle
    /\ MainIdle

CallUpdateElo ==
    /\ pc = "start"
    /\ elo_ret' = update_elo(elo_args.a, elo_args.b, elo_args.result,
                             elo_args.k, elo_args.scaling)
    /\ pc' = "updated"
    /\ UNCHANGED <<elo_args, wp_ret, rematches, seasonVars, forecastVars, playerVars, classVars, mainVars>>

CallWinProbability ==
    /\ pc = "start"
    /\ wp_ret' = <<win_probability(elo_args.a, elo_args.b, elo_args.scaling),
                   win_probability(elo_args.b, elo_args.a, elo_args.scaling)>>
    /\ pc' = "probed"
    /\ UNCHANGED <<elo_args, elo_ret, rematches, seasonVars, forecastVars, playerVars, classVars, mainVars>>

\* the caller feeds the two new ratings into the next call
Rematch ==
    /\ pc = "updated"
    /\ rematches < MaxRematch
    /\ \E r \in ResultInputs :
         elo_args' = [elo_args EXCEPT !.a = elo_ret[1], !.b = elo_ret[2],
                                      !.result = r]
    /\ elo_ret' = <<>>
    /\ wp_ret' = <<>>
    /\ rematches' = rematches + 1
    /\ pc' = "start"
    /\ UNCHANGED <<seasonVars, forecastVars, playerVars, classVars, mainVars>>

EloNext == CallUpdateElo \/ CallWinProbability \/ Rematch

SpecElo == EloInit /\ [][EloNext]_vars

\* ------------------------------------------------------------------------
\* The season replay (team_analyzer.py: analyze_team, analyze_all_teams)
\* ------------------------------------------------------------------------
MaxMatches == 3

MaxRound == 2

\* team names in alphabetical order
TeamOrder == <<"A", "B", "C">>

Teams == {TeamOrder[i] : i \in DOMAIN TeamOrder}

\* <<home_score, away_score>>
ScoreLines == {<<1, 0>>, <<1, 1>>, <<0, 1>>}

MatchRows ==
    {[round |-> r, home_team |-> h, away_team |-> a,
      home_score |-> sc[1], away_score |-> sc[2]] :
        r \in 1..MaxRound, h \in Teams, a \in Teams, sc \in ScoreLines}

\* the subsets of S with at most n members
RECURSIVE SubsetsUpTo(_, _)
SubsetsUpTo(S, n) ==
    IF n = 0 THEN {{}}
    ELSE LET smaller == SubsetsUpTo(S, n - 1)
         IN  smaller \cup {T \cup {x} : T \in smaller, x \in S}

\* the match tables: at most MaxMatches rows, each between two different teams
MatchTables ==
    SubsetsUpTo({m \in MatchRows : m.home_team # m.away_team}, MaxMatches)

\* sorted(set(...)): the members of S in alphabetical order
sorted(S) == SelectSeq(TeamOrder, LAMBDA t : t \in S)

\* sort_values(by='round'): the rows of S in ascending round order; the order
\* of rows of the same round is not fixed by the sort (quicksort)
sort_values(S) ==
    {q \in [1..Cardinality(S) -> S] :
        /\ \A i, j \in DOMAIN q : i # j => q[i] # q[j]
        /\ \A i, j \in DOMAIN q : i < j => q[i].round <= q[j].round}

TeamRows(table, t) == {m \in table : m.home_team = t \/ m.away_team = t}

SeasonInit ==
    /\ pc = "start"
    /\ team_df \in MatchTables
    /\ caller = "none"
    /\ todo = <<>>
    /\ team_name = "none"
    /\ target_team = <<>>
    /\ idx = 0
    /\ team_elos = <<>>
    /\ elo_history = <<>>
    /\ all_records = <<>>
    /\ EloIdle
    /\ ForecastIdle
    /\ PlayersIdle
    /\ ClassIdle
    /\ MainIdle

\* mutant: the rating table is kept from one replay to the next
EnterAnalyzeTeam_shared_table(t) ==
    /\ team_name' = t
    /\ target_team' \in sort_values(TeamRows(team_df, t))
    /\ idx' = 0
    /\ team_elos' = team_elos
    /\ elo_history' = <<>>
    /\ pc' = "match_loop"

\* analyze_team, lines 9-15: mask, copy, sort, empty table and history
EnterAnalyzeTeam(t) ==
    /\ team_name' = t
    /\ target_team' \in sort_values(TeamRows(team_df, t))
    /\ idx' = 0
    /\ team_elos' = <<>>
    /\ elo_history' = <<>>
    /\ pc' = "match_loop"

\* analyze_team called on its own for any team name
CallAnalyzeTeam ==
    /\ pc = "start"
    /\ \E t \in Teams : EnterAnalyzeTeam(t)
    /\ caller' = "direct"
    /\ UNCHANGED <<team_df, todo, all_records, eloVars, forecastVars, playerVars, classVars, mainVars>>

\* the rating a team has in the table, once lazily initialised
StoredElo(elos, t) == IF t \in DOMAIN elos THEN elos[t] ELSE F(INITIAL_ELO)

MatchResult(row) ==
    IF row.home_score > row.away_score THEN F(1)
    ELSE IF row.home_score = row.away_score THEN Unit \div 2
    ELSE F(0)

\* mutant: the home team's stored rating keeps the home-advantage bonus
UpdatedElos_keep_bonus(elos, row) ==
    LET home     == row.home_team
        away     == row.away_team
        home_elo == FAdd(StoredElo(elos, home), F(HOME_ADVANTAGE))
        away_elo == StoredElo(elos, away)
        new      == update_elo(home_elo, away_elo, MatchResult(row),
                               ELO_K_FACTOR, ELO_SCALING)
    IN  [t \in DOMAIN elos \cup {home, away} |->
            IF t = away THEN new[2]
            ELSE IF t = home THEN new[1]
            ELSE elos[t]]

\* the body of the loop over the rows, lines 17-53: the table after the row
UpdatedElos(elos, row) ==
    LET home     == row.home_team
        away     == row.away_team
        home_elo == FAdd(StoredElo(elos, home), F(HOME_ADVANTAGE))
        away_elo == StoredElo(elos, away)
        new      == update_elo(home_elo, away_elo, MatchResult(row),
                               ELO_K_FACTOR, ELO_SCALING)
    IN  [t \in DOMAIN elos \cup {home, away} |->
            IF t = away THEN new[2]
            ELSE IF t = home THEN FSub(new[1], F(HOME_ADVANTAGE))
            ELSE elos[t]]

\* mutant: the history entry is taken before the table is updated
ProcessMatch_stale_entry ==
    /\ pc = "match_loop"
    /\ idx < Len(target_team)
    /\ LET row == target_team[idx + 1]
       IN  /\ team_elos' = UpdatedElos(team_elos, row)
           /\ elo_history' = Append(elo_history,
                                    [round |-> row.round,
                                     elo_score |-> StoredElo(team_elos, team_name),
                                     is_forecast |-> FALSE])
    /\ idx' = idx + 1
    /\ UNCHANGED <<pc, team_df, caller, todo, team_name, target_team,
                   all_records, eloVars, forecastVars, playerVars, classVars, mainVars>>

ProcessMatch ==
    /\ pc = "match_loop"
    /\ idx < Len(target_team)
    /\ LET row == target_team[idx + 1]
       IN  /\ team_elos' = UpdatedElos(team_elos, row)
           /\ elo_history' = Append(elo_history,
                                    [round |-> row.round,
                                     elo_score |-> team_elos'[team_name],
                                     is_forecast |-> FALSE])
    /\ idx' = idx + 1
    /\ UNCHANGED <<pc, team_df, caller, todo, team_name, target_team,
                   all_records, eloVars, forecastVars, playerVars, classVars, mainVars>>

\* analyze_team returns to its direct caller, line 55
ReturnAnalyzeTeam ==
    /\ pc = "match_loop"
    /\ idx = Len(target_team)
    /\ caller = "direct"
    /\ pc' = "returned"
    /\ UNCHANGED <<seasonVars, eloVars, forecastVars, playerVars, classVars, mainVars>>

\* analyze_all_teams, lines 59-60
CallAnalyzeAllTeams ==
    /\ pc = "start"
    /\ caller' = "all"
    /\ todo' = sorted({m.home_team : m \in team_df} \cup
                      {m.away_team : m \in team_df})
    /\ all_records' = <<>>
    /\ pc' = "team_loop"
    /\ UNCHANGED <<team_df, team_name, target_team, idx, team_elos,
                   elo_history, eloVars, forecastVars, playerVars, classVars, mainVars>>

\* analyze_all_teams, lines 62-63: the next team's replay starts
NextTeam ==
    /\ pc = "team_loop"
    /\ todo # <<>>
    /\ EnterAnalyzeTeam(Head(todo))
    /\ UNCHANGED <<team_df, caller, todo, all_records, eloVars, forecastVars, playerVars, classVars, mainVars>>

\* analyze_all_teams, lines 63-65: the replay returned; tag and collect
CollectTeam ==
    /\ pc = "match_loop"
    /\ idx = Len(target_team)
    /\ caller = "all"
    /\ all_records' = all_records \o
          [k \in DOMAIN elo_history |->
              [round |-> elo_history[k].round,
               elo_score |-> elo_history[k].elo_score,
               is_forecast |-> elo_history[k].is_forecast,
               team |-> team_name]]
    /\ todo' = Tail(todo)
    /\ pc' = "team_loop"
    /\ UNCHANGED <<team_df, caller, team_name, target_team, idx, team_elos,
                   elo_history, eloVars, forecastVars, playerVars, classVars, mainVars>>

\* analyze_all_teams, lines 67-70: pd.concat raises on an empty list
ReturnAnalyzeAllTeams ==
    /\ pc = "team_loop"
    /\ todo = <<>>
    /\ pc' = IF team_df = {} THEN "raised" ELSE "returned"
    /\ UNCHANGED <<seasonVars, eloVars, forecastVars, playerVars, classVars, mainVars>>

Next ==
    \/ CallAnalyzeTeam
    \/ ProcessMatch
    \/ ReturnAnalyzeTeam
    \/ CallAnalyzeAllTeams
    \/ NextTeam
    \/ CollectTeam
    \/ ReturnAnalyzeAllTeams

Spec == SeasonInit /\ [][Next]_vars


\* ------------------------------------------------------------------------
\* The forecaster (team_analyzer.py: forecast_all_matches)
\* ------------------------------------------------------------------------
MaxFixtures == 2

MaxHistory == 2

ScheduleRounds == {1, 2, 3}

ScheduleDates == {1}

HistoryTeams == {"A", "B"}

HistoryRounds == {1, 2}

HistoryElos == {F(1420), F(1610)}

FixtureRows ==
    {[round |-> r, date |-> d, home_team |-> h, away_team |-> a] :
        r \in ScheduleRounds, d \in ScheduleDates, h \in Teams, a \in Teams}

\* the schedules: at most MaxFixtures fixtures, each between two different teams
Schedules ==
    SubsetsUpTo({x \in FixtureRows : x.home_team # x.away_team}, MaxFixtures)

HistoryRows ==
    [team : HistoryTeams, round : HistoryRounds, elo_score : HistoryElos,
     is_forecast : BOOLEAN]

\* the sequences over S of length at most n
RECURSIVE SeqsUpTo(_, _)
SeqsUpTo(S, n) ==
    IF n = 0 THEN {<<>>}
    ELSE LET shorter == SeqsUpTo(S, n - 1)
         IN  shorter \cup {Append(q, x) : q \in shorter, x \in S}

Histories == SeqsUpTo(HistoryRows, MaxHistory)

SetMin(S) == CHOOSE x \in S : \A y \in S : x <= y

SetMax(S) == CHOOSE x \in S : \A y \in S : x >= y

\* Python's round(x) of a non-negative float: the nearest int, ties to even
PyRound(x) ==
    LET q == x \div Unit
        r == x % Unit
    IN  IF 2 * r > Unit \/ (2 * r = Unit /\ q % 2 = 1) THEN q + 1 ELSE q

\* f"{n}%"
Percent(n) == <<n, "%">>

\* dict.get(key, default)
Get(d, key, default) == IF key \in DOMAIN d THEN d[key] ELSE default

\* mutant: the entry of the smallest round is taken
LatestElo_first_round(history, team) ==
    LET team_rows == SelectSeq(history,
                      LAMBDA e : e.team = team /\ e.is_forecast = FALSE)
    IN  IF team_rows # <<>>
        THEN LET last_round == SetMin({team_rows[k].round : k \in DOMAIN team_rows})
             IN  SelectSeq(team_rows, LAMBDA e : e.round = last_round)[1].elo_score
        ELSE F(INITIAL_ELO)

\* lines 130-140: the team's most recent non-forecast rating, or INITIAL_ELO
LatestElo(history, team) ==
    LET team_rows == SelectSeq(history,
                      LAMBDA e : e.team = team /\ e.is_forecast = FALSE)
    IN  IF team_rows # <<>>
        THEN LET last_round == SetMax({team_rows[k].round : k \in DOMAIN team_rows})
             IN  SelectSeq(team_rows, LAMBDA e : e.round = last_round)[1].elo_score
        ELSE F(INITIAL_ELO)

\* mutant: the window is the earliest round alone
target_rounds_one(schedule) ==
    IF schedule = {} THEN {}
    ELSE {SetMin({x.round : x \in schedule})}

\* lines 143-144: [current_round, current_round + 1]; the minimum of an empty
\* column is NaN, a round no fixture has
target_rounds(schedule) ==
    IF schedule = {} THEN {}
    ELSE LET current_round == SetMin({x.round : x \in schedule})
         IN  {current_round, current_round + 1}

\* sort_values(by=['round', 'date']): rows of equal round and date in any order
sort_by_round_date(S) ==
    {q \in [1..Cardinality(S) -> S] :
        /\ \A i, j \in DOMAIN q : i # j => q[i] # q[j]
        /\ \A i, j \in DOMAIN q : i < j =>
              \/ q[i].round < q[j].round
              \/ q[i].round = q[j].round /\ q[i].date <= q[j].date}

\* mutant: the away row repeats the home team's probability
PerspectiveRows_same_prob(row, prob_home, prob_away) ==
    [n \in 1..2 |->
        LET team     == IF n = 1 THEN row.home_team ELSE row.away_team
            opponent == IF team = row.home_team THEN row.away_team
                                                ELSE row.home_team
            win_prob == prob_home
            lose_prob == 100 - win_prob
        IN  [date |-> row.date, round |-> row.round,
             home_team |-> row.home_team, away_team |-> row.away_team,
             home_win_probability |-> Percent(prob_home),
             away_win_probability |-> Percent(prob_away),
             team |-> team, opponent |-> opponent,
             win_probability |-> Percent(win_prob),
             opponent_win_probability |-> Percent(lose_prob)]]

\* lines 161-177: the two rows of a fixture, for team in [home, away]
PerspectiveRows(row, prob_home, prob_away) ==
    [n \in 1..2 |->
        LET team     == IF n = 1 THEN row.home_team ELSE row.away_team
            opponent == IF team = row.home_team THEN row.away_team
                                                ELSE row.home_team
            win_prob == IF team = row.home_team THEN prob_home ELSE prob_away
            lose_prob == 100 - win_prob
        IN  [date |-> row.date, round |-> row.round,
             home_team |-> row.home_team, away_team |-> row.away_team,
             home_win_probability |-> Percent(prob_home),
             away_win_probability |-> Percent(prob_away),
             team |-> team, opponent |-> opponent,
             win_probability |-> Percent(win_prob),
             opponent_win_probability |-> Percent(lose_prob)]]

\* lines 155-159: the home team's rounded percentage
HomePercent(elos, row) ==
    LET home_elo == FAdd(Get(elos, row.home_team, F(INITIAL_ELO)),
                         F(HOME_ADVANTAGE))
        away_elo == Get(elos, row.away_team, F(INITIAL_ELO))
    IN  PyRound(FMulInt(100, win_probability(home_elo, away_elo, ELO_SCALING)))

ForecastInit ==
    /\ pc = "start"
    /\ schedule_df \in Schedules
    /\ elo_history_df \in Histories
    /\ fc_team_elos = <<>>
    /\ matches = <<>>
    /\ fidx = 0
    /\ rows = <<>>
    /\ EloIdle
    /\ SeasonIdle
    /\ PlayersIdle
    /\ ClassIdle
    /\ MainIdle

\* forecast_all_matches, lines 125-147: the ratings, the window, the sort
CallForecastAllMatches ==
    /\ pc = "start"
    /\ LET teams_in_schedule == {x.home_team : x \in schedule_df} \cup
                                {x.away_team : x \in schedule_df}
       IN  fc_team_elos' = [t \in teams_in_schedule |->
                               LatestElo(elo_history_df, t)]
    /\ matches' \in sort_by_round_date(
                      {x \in schedule_df : x.round \in target_rounds(schedule_df)})
    /\ fidx' = 0
    /\ rows' = <<>>
    /\ pc' = "fixture_loop"
    /\ UNCHANGED <<schedule_df, elo_history_df, eloVars, seasonVars, playerVars, classVars, mainVars>>

\* the body of the loop over the window's fixtures, lines 149-177
ForecastFixture ==
    /\ pc = "fixture_loop"
    /\ fidx < Len(matches)
    /\ LET row       == matches[fidx + 1]
           prob_home == HomePercent(fc_team_elos, row)
           prob_away == 100 - prob_home
       IN  rows' = rows \o PerspectiveRows(row, prob_home, prob_away)
    /\ fidx' = fidx + 1
    /\ UNCHANGED <<pc, schedule_df, elo_history_df, fc_team_elos, matches,
                   eloVars, seasonVars, playerVars, classVars, mainVars>>

\* lines 179-182: the rows are written and returned
ReturnForecast ==
    /\ pc = "fixture_loop"
    /\ fidx = Len(matches)
    /\ pc' = "forecast_done"
    /\ UNCHANGED <<forecastVars, eloVars, seasonVars, playerVars, classVars, mainVars>>

ForecastNext == CallForecastAllMatches \/ ForecastFixture \/ ReturnForecast

SpecForecast == ForecastInit /\ [][ForecastNext]_vars

\* ------------------------------------------------------------------------
\* The player scorer (player_analyzer.py): filter_players and normalize
\* ------------------------------------------------------------------------
MaxPlayers == 5

MaxSeries == 4

\* the position tags of ForwardScorer, MidfielderScorer and DefenderScorer
ScorerTags == {"FW", "MF", "DF"}

PositionInputs == {"FW", "MF"}

MinuteInputs == {F(60), F(90), NaN}

SeriesInputs == {F(0), F(5), F(10), F(7) + Unit \div 2, NaN}

\* a player table: rows 1..n, each labelled with its index
PlayerTables ==
    {[i \in DOMAIN q |->
        [player |-> i, main_pos |-> q[i][1], playing_time_min |-> q[i][2]]] :
            q \in SeqsUpTo(PositionInputs \X MinuteInputs, MaxPlayers)}

\* the values of a column that are not missing
Present(col) == SelectSeq(col, LAMBDA v : ~IsNaN(v))

\* the k-th smallest member of a sequence of numbers
KthSmallest(col, k) ==
    CHOOSE v \in {col[i] : i \in DOMAIN col} :
        /\ Cardinality({i \in DOMAIN col : col[i] < v}) < k
        /\ Cardinality({i \in DOMAIN col : col[i] <= v}) >= k

\* Series.median(): missing values are skipped; the middle value, or the
\* mean of the two middle values; NaN when nothing is left
median(col) ==
    LET v == Present(col)
        n == Len(v)
    IN  IF n = 0 THEN NaN
        ELSE IF n % 2 = 1 THEN KthSmallest(v, (n + 1) \div 2)
        ELSE FDivInt(FAdd(KthSmallest(v, n \div 2),
                          KthSmallest(v, n \div 2 + 1)), 2)

\* Series.min() and Series.max(): missing values are skipped
SeriesMin(col) ==
    IF Present(col) = <<>> THEN NaN ELSE KthSmallest(Present(col), 1)

SeriesMax(col) ==
    IF Present(col) = <<>> THEN NaN
    ELSE KthSmallest(Present(col), Len(Present(col)))

\* x >= y of two floats: False when either is NaN
FGe(x, y) == ~IsNaN(x) /\ ~IsNaN(y) /\ x >= y

Column(frame, name) == [i \in DOMAIN frame |-> frame[i][name]]

\* filter_by_minutes, lines 13-16
filter_by_minutes(frame) ==
    LET threshold == median(Column(frame, "playing_time_min"))
    IN  SelectSeq(frame, LAMBDA r : FGe(r.playing_time_min, threshold))

\* mutant: the median is taken over the whole table, before the position
\* filter
filter_players_global_median(frame, tag) ==
    LET threshold == median(Column(frame, "playing_time_min"))
    IN  SelectSeq(frame, LAMBDA r :
            r.main_pos = tag /\ FGe(r.playing_time_min, threshold))

\* filter_players of the three scorers, lines 78-81, 119-122, 159-162
filter_players(frame, tag) ==
    filter_by_minutes(SelectSeq(frame, LAMBDA r : r.main_pos = tag))

\* mutant: the denominator is the maximum, not the range
normalize_by_max(col) ==
    LET lo == SeriesMin(col)
        hi == SeriesMax(col)
    IN  [i \in DOMAIN col |->
            IF IsNaN(col[i]) \/ IsNaN(lo) THEN NaN
            ELSE IF hi = 0 THEN NaN
            ELSE FDiv(FSub(col[i], lo), hi)]

\* normalize, lines 30-32: (series - min) / (max - min), element by element;
\* a missing element stays missing and 0 / 0 is NaN
normalize(col) ==
    LET lo == SeriesMin(col)
        hi == SeriesMax(col)
    IN  [i \in DOMAIN col |->
            IF IsNaN(col[i]) \/ IsNaN(lo) THEN NaN
            ELSE IF FSub(hi, lo) = 0 THEN NaN
            ELSE FDiv(FSub(col[i], lo), FSub(hi, lo))]

FilterInit ==
    /\ pc = "start"
    /\ scorer \in ScorerTags
    /\ df \in PlayerTables
    /\ filtered_df = None
    /\ series = <<>>
    /\ norm_ret = None
    /\ top_ret = None
    /\ ClassIdle
    /\ MainIdle
    /\ EloIdle
    /\ SeasonIdle
    /\ ForecastIdle

CallFilterPlayers ==
    /\ pc = "start"
    /\ filtered_df' = filter_players(df, scorer)
    /\ pc' = "filtered"
    /\ UNCHANGED <<scorer, df, series, norm_ret, top_ret, eloVars, seasonVars,
                   forecastVars, classVars, mainVars>>

FilterNext == CallFilterPlayers

SpecFilter == FilterInit /\ [][FilterNext]_vars

NormalizeInit ==
    /\ pc = "start"
    /\ scorer = "FW"
    /\ df = <<>>
    /\ filtered_df = None
    /\ series \in SeqsUpTo(SeriesInputs, MaxSeries)
    /\ norm_ret = None
    /\ top_ret = None
    /\ ClassIdle
    /\ MainIdle
    /\ EloIdle
    /\ SeasonIdle
    /\ ForecastIdle

CallNormalize ==
    /\ pc = "start"
    /\ norm_ret' = normalize(series)
    /\ pc' = "normalized"
    /\ UNCHANGED <<scorer, df, filtered_df, series, top_ret, eloVars,
                   seasonVars, forecastVars, classVars, mainVars>>

NormalizeNext == CallNormalize

SpecNormalize == NormalizeInit /\ [][NormalizeNext]_vars

\* ------------------------------------------------------------------------
\* The player scorer (player_analyzer.py): smart_scale, compute_weighted_score
\* and top_n
\* ------------------------------------------------------------------------
\* the number of trailing zero bits of a positive number below 2^30
Tz(n) == CHOOSE k \in 0..29 : n % 2^k = 0 /\ n % 2^(k + 1) # 0

\* float times float: the exact product of the two significands, rounded once
FMul(x, y) ==
    IF x = 0 \/ y = 0 THEN 0
    ELSE LET a == Abs(x)
             b == Abs(y)
             m == (a \div 2^Tz(a)) * (b \div 2^Tz(b))
             e == Tz(a) + Tz(b) - FracBits
         IN  Sign(x) * Sign(y) *
                 (IF e >= 0 THEN Rnd(m) * 2^e ELSE RoundRat(m, 2^(0 - e)))

\* the float nearest to num/den, e.g. the literal 0.15 is Literal(15, 100)
Literal(num, den) == RoundRat(num * Unit, den)

\* float operations on values that may be missing: NaN in, NaN out
NaNAdd(x, y) == IF IsNaN(x) \/ IsNaN(y) THEN NaN ELSE FAdd(x, y)

NaNSub(x, y) == IF IsNaN(x) \/ IsNaN(y) THEN NaN ELSE FSub(x, y)

NaNMul(x, y) == IF IsNaN(x) \/ IsNaN(y) THEN NaN ELSE FMul(x, y)

\* x < y and x > y of two floats: False when either is NaN
FLt(x, y) == ~IsNaN(x) /\ ~IsNaN(y) /\ x < y

FGt(x, y) == ~IsNaN(x) /\ ~IsNaN(y) /\ x > y

\* Series.quantile(quarters / 4), linear interpolation between the two
\* neighbouring order statistics of the values present; NaN when none is
quantile(col, quarters) ==
    LET v    == Present(col)
        n    == Len(v)
        pos  == (n - 1) * quarters
        prev == pos \div 4 + 1
        next == IF prev < n THEN prev + 1 ELSE n
        t    == (pos % 4) * (Unit \div 4)
        a    == KthSmallest(v, prev)
        b    == KthSmallest(v, next)
        diff == FSub(b, a)
    IN  IF n = 0 THEN NaN
        ELSE IF 2 * t >= Unit THEN FSub(b, FMul(diff, Unit - t))
        ELSE FAdd(a, FMul(diff, t))

\* the binary digits after the point of log2(m / PowUnit), PowUnit <= m <
\* 2 * PowUnit, by repeated squaring
RECURSIVE Log2Frac(_, _)
Log2Frac(m, bit) ==
    IF bit = 0 THEN 0
    ELSE LET sq == MulFix(m, m)
         IN  IF sq >= 2 * PowUnit THEN bit + Log2Frac(sq \div 2, bit \div 2)
             ELSE Log2Frac(sq, bit \div 2)

\* np.log1p(x), 0 <= x < 2^(PowBits - FracBits) - 1: ln(1 + x) computed to
\* PowBits fractional bits as log2(1 + x) * ln 2, then rounded
log1p(x) ==
    LET v    == Unit + x
        n    == BitLen(v) - 1
        m    == v * 2^(PowBits - n)
        log2 == (n - FracBits) * PowUnit + Log2Frac(m, PowUnit \div 2)
    IN  IF IsNaN(x) THEN NaN
        ELSE RoundRat(MulFix(log2, LN2), 2^(PowBits - FracBits))

\* series.clip(lower=0).fillna(0)
clip_fillna(col) ==
    [i \in DOMAIN col |-> IF IsNaN(col[i]) \/ col[i] < 0 THEN 0 ELSE col[i]]

\* log_scaling, lines 34-37
log_scaling(col) ==
    LET clipped == clip_fillna(col)
    IN  normalize([i \in DOMAIN col |-> log1p(clipped[i])])

\* the name of the output column of smart_scale
NormColumn(column) == column \o "_norm"

\* the frame with one column set (added when it is new)
Assign(frame, name, col) ==
    [i \in DOMAIN frame |->
        [f \in DOMAIN frame[i] \cup {name} |->
            IF f = name THEN col[i] ELSE frame[i][f]]]

\* factor = 1.5
factor == Unit + Unit \div 2

\* mutant: the outlier test looks above the upper fence only
smart_scale_upper_only(frame, column) ==
    LET col   == Column(frame, column)
        q1    == quantile(col, 1)
        q3    == quantile(col, 3)
        iqr   == NaNSub(q3, q1)
        upper == NaNAdd(q3, NaNMul(factor, iqr))
        has_outlier == \E i \in DOMAIN col : FGt(col[i], upper)
    IN  Assign(frame, NormColumn(column),
               IF has_outlier THEN log_scaling(col) ELSE normalize(col))

\* smart_scale, lines 39-57
smart_scale(frame, column) ==
    LET col   == Column(frame, column)
        q1    == quantile(col, 1)
        q3    == quantile(col, 3)
        iqr   == NaNSub(q3, q1)
        lower == NaNSub(q1, NaNMul(factor, iqr))
        upper == NaNAdd(q3, NaNMul(factor, iqr))
        has_outlier ==
            \E i \in DOMAIN col : FLt(col[i], lower) \/ FGt(col[i], upper)
    IN  Assign(frame, NormColumn(column),
               IF has_outlier THEN log_scaling(col) ELSE normalize(col))

\* ForwardScorer: the first two of its columns_to_scale and their weights, in
\* hundredths (the other fourteen columns are scaled and weighted the same way)
columns_to_scale == <<"gls_per90", "g_minus_pkgls_per90">>

weights == <<<<"gls_per90_norm", 15>>, <<"g_minus_pkgls_per90_norm", 10>>>>

\* prepare_features, lines 83-94: smart_scale on each column in turn
RECURSIVE ScaleColumns(_, _, _)
ScaleColumns(frame, columns, done) ==
    IF done = Len(columns) THEN frame
    ELSE ScaleColumns(smart_scale(frame, columns[done + 1]), columns, done + 1)

prepare_features(frame) == ScaleColumns(frame, columns_to_scale, 0)

\* the score column after the first `done` weights were added
RECURSIVE ScoreColumn(_, _, _)
ScoreColumn(frame, w, done) ==
    IF done = 0 THEN [i \in DOMAIN frame |-> 0]
    ELSE LET before == ScoreColumn(frame, w, done - 1)
         IN  [i \in DOMAIN frame |->
                NaNAdd(before[i],
                       NaNMul(frame[i][w[done][1]], Literal(w[done][2], 100)))]

\* mutant: a missing term counts as 0
compute_weighted_score_skipna(frame, w) ==
    Assign(frame, "score",
        ScoreColumn([i \in DOMAIN frame |->
                        [f \in {w[k][1] : k \in DOMAIN w} |->
                            IF IsNaN(frame[i][f]) THEN 0 ELSE frame[i][f]]],
                    w, Len(w)))

\* compute_weighted_score, lines 59-64
compute_weighted_score(frame, w) ==
    Assign(frame, "score", ScoreColumn(frame, w, Len(w)))

\* s1 may stand before s2 in sort_values(by='score', ascending=False):
\* descending, missing scores last
ScoreBefore(s1, s2) == IsNaN(s2) \/ (~IsNaN(s1) /\ s1 >= s2)

\* mutant: the sort is ascending
top_n_ascending(frame, n) ==
    {[k \in 1..(IF n < Len(frame) THEN n ELSE Len(frame)) |-> frame[p[k]]] :
        p \in {q \in [DOMAIN frame -> DOMAIN frame] :
                /\ \A i, j \in DOMAIN q : i # j => q[i] # q[j]
                /\ \A i, j \in DOMAIN q : i < j =>
                      ScoreBefore(frame[q[j]].score, frame[q[i]].score)}}

\* top_n, lines 66-68: the results sort_values(...).head(n) can give; rows of
\* equal score stand in any order (quicksort)
top_n(frame, n) ==
    {[k \in 1..(IF n < Len(frame) THEN n ELSE Len(frame)) |-> frame[p[k]]] :
        p \in {q \in [DOMAIN frame -> DOMAIN frame] :
                /\ \A i, j \in DOMAIN q : i # j => q[i] # q[j]
                /\ \A i, j \in DOMAIN q : i < j =>
                      ScoreBefore(frame[q[i]].score, frame[q[j]].score)}}

\* smart_scale called on a frame of one metric column
ScaleInputs == {F(0), F(5), F(10), F(100), 0 - F(3), NaN}

ScaleFrames ==
    {[i \in DOMAIN q |->
        [player |-> i, playing_time_min |-> F(90), gls_per90 |-> q[i]]] :
            q \in SeqsUpTo(ScaleInputs, MaxPlayers)}

ScaleInit ==
    /\ pc = "start"
    /\ scorer = "FW"
    /\ df = <<>>
    /\ filtered_df \in ScaleFrames
    /\ series = <<>>
    /\ norm_ret = None
    /\ top_ret = None
    /\ ClassIdle
    /\ MainIdle
    /\ EloIdle
    /\ SeasonIdle
    /\ ForecastIdle

CallSmartScale ==
    /\ pc = "start"
    /\ filtered_df' = smart_scale(filtered_df, "gls_per90")
    /\ pc' = "scaled"
    /\ UNCHANGED <<scorer, df, series, norm_ret, top_ret, eloVars, seasonVars,
                   forecastVars, classVars, mainVars>>

ScaleNext == CallSmartScale

SpecScale == ScaleInit /\ [][ScaleNext]_vars

\* The scorer's run: filter_players, prepare_features, compute_score, top_n
\* (save_top_players_to_csv, lines 202-206).  The kinds of player rows: every
\* combination of minutes and the two metrics for forwards, and a midfielder
ScoreRowKinds ==
    [k \in 1..13 |->
        IF k = 13
        THEN [main_pos |-> "MF", playing_time_min |-> F(90),
              gls_per90 |-> F(5), g_minus_pkgls_per90 |-> F(5)]
        ELSE [main_pos |-> "FW",
              playing_time_min |-> IF k <= 6 THEN F(60) ELSE F(90),
              gls_per90 |-> <<F(0), F(5), NaN>>[((k - 1) % 3) + 1],
              g_minus_pkgls_per90 |-> <<F(0), F(5)>>[(((k - 1) \div 3) % 2) + 1]]]

\* the sequences of n row kinds in ascending order of kind, the last at most k
RECURSIVE Ascending(_, _)
Ascending(n, k) ==
    IF n = 0 THEN {<<>>}
    ELSE UNION {{Append(q, j) : q \in Ascending(n - 1, j)} : j \in 1..k}

\* the player tables of up to MaxPlayers rows; the run does not depend on the
\* order of the rows of the table, so one order stands for each table
ScoreTables ==
    {[i \in DOMAIN q |->
        [f \in DOMAIN ScoreRowKinds[q[i]] \cup {"player"} |->
            IF f = "player" THEN i ELSE ScoreRowKinds[q[i]][f]]] :
        q \in UNION {Ascending(n, Len(ScoreRowKinds)) : n \in 0..MaxPlayers}}

\* the arguments of top_n
TopInputs == {1, 3}

ScoreInit ==
    /\ pc = "start"
    /\ scorer = "FW"
    /\ df \in ScoreTables
    /\ filtered_df = None
    /\ series = <<>>
    /\ norm_ret = None
    /\ top_ret = None
    /\ ClassIdle
    /\ MainIdle
    /\ EloIdle
    /\ SeasonIdle
    /\ ForecastIdle

CallPrepareFeatures ==
    /\ pc = "filtered"
    /\ filtered_df' = prepare_features(filtered_df)
    /\ pc' = "prepared"
    /\ UNCHANGED <<scorer, df, series, norm_ret, top_ret, eloVars, seasonVars,
                   forecastVars, classVars, mainVars>>

CallComputeScore ==
    /\ pc = "prepared"
    /\ filtered_df' = compute_weighted_score(filtered_df, weights)
    /\ pc' = "scored"
    /\ UNCHANGED <<scorer, df, series, norm_ret, top_ret, eloVars, seasonVars,
                   forecastVars, classVars, mainVars>>

CallTopN ==
    /\ pc = "scored"
    /\ \E n \in TopInputs :
          \E r \in top_n(filtered_df, n) : top_ret' = [n |-> n, rows |-> r]
    /\ pc' = "ranked"
    /\ UNCHANGED <<scorer, df, filtered_df, series, norm_ret, eloVars,
                   seasonVars, forecastVars, classVars, mainVars>>

ScoreNext ==
    \/ CallFilterPlayers
    \/ CallPrepareFeatures
    \/ CallComputeScore
    \/ CallTopN

SpecScore == ScoreInit /\ [][ScoreNext]_vars

\* ------------------------------------------------------------------------
\* The run (main.py): prepare_elo, prepare_players, choose_team,
\* choose_position.  A data file is missing, or exists without a column the
\* run reads (it is not in `complete`), or exists with every column.
\* ------------------------------------------------------------------------
matches_path == "data/elo_matches_2425.csv"

schedule_path == "data/epl_2025_schedule.csv"

raw_path == "data/merged_players_all.csv"

DataFiles == {matches_path, schedule_path, raw_path}

\* the teams of the menu (three of the twenty)
teams == TeamOrder

\* radar chart files by menu choice
position_map ==
    [c \in {"1", "2", "3"} |->
        CASE c = "1" -> [name |-> "Forward", file |-> "top_fw_players.csv"]
          [] c = "2" -> [name |-> "Midfielder", file |-> "top_mf_players.csv"]
          [] c = "3" -> [name |-> "Defender", file |-> "top_df_players.csv"]]

TeamChoices == {"0", "21", "1", "x"}

PositionChoices == {"0", "1", "4", "x"}

\* the files save_top_players_to_csv writes
PlayerOutputs ==
    {"top_fw_players.csv", "all_fw_players.csv", "top_mf_players.csv",
     "all_mf_players.csv", "top_df_players.csv", "all_df_players.csv"}

MainInit ==
    /\ pc = "start"
    /\ existing \in SUBSET DataFiles
    /\ complete \in SUBSET existing
    /\ printed = <<"Welcome to EPL Metrics Lab">>
    /\ outputs = {}
    /\ EloIdle
    /\ SeasonIdle
    /\ ForecastIdle
    /\ PlayersIdle
    /\ ClassIdle

\* prepare_elo, lines 47-60.  A table without the column raises KeyError in
\* analyze_all_teams (team_df['home_team']) or forecast_all_matches
\* (schedule_df['home_team']); nothing in main.py catches it
PrepareElo ==
    /\ pc = "start"
    /\ LET said == Append(printed, "Generating Elo history data...")
       IN  IF ~(matches_path \in existing /\ schedule_path \in existing)
           THEN /\ printed' = Append(said,
                      "Missing raw data files required for Elo computation.")
                /\ outputs' = outputs
                /\ pc' = "elo_prepared"
           ELSE IF matches_path \notin complete
           THEN /\ printed' = Append(said, "Traceback: KeyError")
                /\ outputs' = outputs
                /\ pc' = "unhandled_error"
           ELSE IF schedule_path \notin complete
           THEN /\ printed' = Append(said, "Traceback: KeyError")
                /\ outputs' = outputs \cup {"elo_history_all.csv"}
                /\ pc' = "unhandled_error"
           ELSE /\ printed' = Append(said, "Elo data successfully generated.")
                /\ outputs' = outputs \cup {"elo_history_all.csv",
                                            "win_probability_forecast.csv"}
                /\ pc' = "elo_prepared"
    /\ UNCHANGED <<existing, complete, eloVars, seasonVars, forecastVars,
                   playerVars, classVars>>

\* prepare_players, lines 62-71; a table without the column raises KeyError in
\* filter_players (self.df['main_pos'])
PreparePlayers ==
    /\ pc = "elo_prepared"
    /\ LET said == Append(printed, "Ranking TOP 3 players (FW/MF/DF)...")
       IN  IF raw_path \notin existing
           THEN /\ printed' = Append(said, "Missing raw player data for scoring.")
                /\ outputs' = outputs
                /\ pc' = "players_prepared"
           ELSE IF raw_path \notin complete
           THEN /\ printed' = Append(said, "Traceback: KeyError")
                /\ outputs' = outputs
                /\ pc' = "unhandled_error"
           ELSE /\ printed' = Append(said,
                      "Player ranking files successfully generated.")
                /\ outputs' = outputs \cup PlayerOutputs
                /\ pc' = "players_prepared"
    /\ UNCHANGED <<existing, complete, eloVars, seasonVars, forecastVars,
                   playerVars, classVars>>

\* plot_elo_trend (plotters.py, lines 13-78) for each team of a list: what it
\* prints and the files it saves
RECURSIVE plot_elo_trend(_, _, _)
plot_elo_trend(names, said, files) ==
    IF names = <<>> THEN <<said, files>>
    ELSE IF {"elo_history_all.csv", "win_probability_forecast.csv"} \subseteq files
         THEN plot_elo_trend(Tail(names),
                  Append(said, "Elo trend plot saved"),
                  files \cup {Head(names) \o "_elo_trend.png"})
         ELSE plot_elo_trend(Tail(names),
                  Append(said, "Required data files not found in 'outputs/' directory."),
                  files)

\* choose_team, lines 74-94
ChooseTeam ==
    /\ pc = "players_prepared"
    /\ \E choice \in TeamChoices :
          LET said == Append(printed, "Select a team to view Elo trend chart")
              plotted == plot_elo_trend(IF choice = "21" THEN teams
                                        ELSE <<teams[1]>>, said, outputs)
          IN  IF choice = "0"
              THEN /\ printed' = Append(said, "Skipped team chart generation.")
                   /\ outputs' = outputs
                   /\ pc' = "team_chosen"
              ELSE IF choice \in {"21", "1"}
              THEN /\ printed' = plotted[1]
                   /\ outputs' = plotted[2]
                   /\ pc' = "team_chosen"
              ELSE /\ printed' = Append(said, "Invalid selection. Exiting program.")
                   /\ outputs' = outputs
                   /\ pc' = "exit_1"
    /\ UNCHANGED <<existing, complete, eloVars, seasonVars, forecastVars,
                   playerVars, classVars>>

\* plot_radar_chart (plotters.py, lines 107-141) for each position of a list
RECURSIVE plot_radar_chart(_, _, _)
plot_radar_chart(positions, said, files) ==
    IF positions = <<>> THEN <<said, files>>
    ELSE IF Head(positions).file \in files
         THEN plot_radar_chart(Tail(positions),
                  Append(said, "Radar chart saved"),
                  files \cup {"radar_" \o Head(positions).name \o ".png"})
         ELSE plot_radar_chart(Tail(positions),
                  Append(said, "File not found: " \o Head(positions).file),
                  files)

\* choose_position, lines 96-114
ChoosePosition ==
    /\ pc = "team_chosen"
    /\ \E choice \in PositionChoices :
          LET said == Append(printed, "Select a player position to generate radar chart")
              plotted == plot_radar_chart(
                             IF choice = "4"
                             THEN <<position_map["1"], position_map["2"],
                                    position_map["3"]>>
                             ELSE <<position_map[choice]>>, said, outputs)
          IN  IF choice \in DOMAIN position_map \/ choice = "4"
              THEN /\ printed' = plotted[1]
                   /\ outputs' = plotted[2]
                   /\ pc' = "exit_0"
              ELSE IF choice = "0"
              THEN /\ printed' = Append(said, "Skipping radar chart generation.")
                   /\ outputs' = outputs
                   /\ pc' = "exit_0"
              ELSE /\ printed' = Append(said, "Invalid selection. Exiting program.")
                   /\ outputs' = outputs
                   /\ pc' = "exit_1"
    /\ UNCHANGED <<existing, complete, eloVars, seasonVars, forecastVars,
                   playerVars, classVars>>

MainNext ==
    \/ PrepareElo
    \/ PreparePlayers
    \/ ChooseTeam
    \/ ChoosePosition

SpecMain == MainInit /\ [][MainNext]_vars

\* ------------------------------------------------------------------------
\* WinRateForecast (team_analyzer.py, lines 73-120)
\* ------------------------------------------------------------------------
\* the rating mappings a caller can preload: some teams, each with a rating
RatingMappings ==
    UNION {[known -> HistoryElos] : known \in SUBSET Teams}

\* WinRateForecast(schedule_df, team_elos), before forecast is called
ClassInit ==
    /\ pc = "start"
    /\ wr_schedule_df \in Schedules
    /\ wr_team_elos \in RatingMappings
    /\ wr_team_name \in Teams
    /\ future_matches = <<>>
    /\ wr_idx = 0
    /\ forecast_rows = <<>>
    /\ EloIdle
    /\ SeasonIdle
    /\ ForecastIdle
    /\ PlayersIdle
    /\ MainIdle

\* forecast, lines 81-93: the team's fixtures sorted by round, cut to the
\* window; without a fixture an empty frame is returned at once
CallForecast ==
    /\ pc = "start"
    /\ \E q \in sort_values(TeamRows(wr_schedule_df, wr_team_name)) :
          future_matches' =
              SelectSeq(q, LAMBDA x :
                  x.round \in target_rounds(TeamRows(wr_schedule_df, wr_team_name)))
    /\ pc' = IF TeamRows(wr_schedule_df, wr_team_name) = {}
             THEN "forecast_returned" ELSE "forecast_loop"
    /\ UNCHANGED <<wr_schedule_df, wr_team_elos, wr_team_name, wr_idx,
                   forecast_rows, eloVars, seasonVars, forecastVars, playerVars,
                   mainVars>>

\* lines 98-118 for one row: the probability from the team's point of view
ForecastRow(elos, row, team) ==
    LET home_elo == FAdd(elos[row.home_team], F(HOME_ADVANTAGE))
        away_elo == elos[row.away_team]
        prob     == win_probability(home_elo, away_elo, ELO_SCALING)
        target_prob == IF team = row.home_team
                       THEN PyRound(FMulInt(100, prob))
                       ELSE PyRound(FMulInt(100, FSub(F(1), prob)))
    IN  [round |-> row.round, team |-> team,
         opponent |-> IF team = row.home_team THEN row.away_team
                                              ELSE row.home_team,
         win_probability |-> Percent(target_prob),
         opponent_win_probability |-> Percent(100 - target_prob)]

\* the body of the loop, lines 97-120: self.team_elos[home] and
\* self.team_elos[away] raise KeyError for a team the mapping does not hold
ForecastMatch ==
    /\ pc = "forecast_loop"
    /\ wr_idx < Len(future_matches)
    /\ LET row == future_matches[wr_idx + 1]
       IN  IF {row.home_team, row.away_team} \subseteq DOMAIN wr_team_elos
           THEN /\ forecast_rows' =
                      Append(forecast_rows,
                             ForecastRow(wr_team_elos, row, wr_team_name))
                /\ wr_idx' = wr_idx + 1
                /\ pc' = pc
           ELSE /\ pc' = "KeyError"
                /\ UNCHANGED <<forecast_rows, wr_idx>>
    /\ UNCHANGED <<wr_schedule_df, wr_team_elos, wr_team_name, future_matches,
                   eloVars, seasonVars, forecastVars, playerVars, mainVars>>

\* line 120: the rows are returned
ReturnForecastRows ==
    /\ pc = "forecast_loop"
    /\ wr_idx = Len(future_matches)
    /\ pc' = "forecast_returned"
    /\ UNCHANGED <<classVars, eloVars, seasonVars, forecastVars, playerVars,
                   mainVars>>

ClassNext == CallForecast \/ ForecastMatch \/ ReturnForecastRows

SpecClass == ClassInit /\ [][ClassNext]_vars

\* ------------------------------------------------------------------------
\* Claims
\* ------------------------------------------------------------------------
Max4(a, b, c, d) == Max2(Max2(a, b), Max2(c, d))

\* what team A gained plus what team B gained, in exact arithmetic
EloExchange == (elo_ret[1] - elo_args.a) + (elo_ret[2] - elo_args.b)

RECURSIVE SumOver(_, _)
SumOver(f, S) ==
    IF S = {} THEN 0
    ELSE LET t == CHOOSE x \in S : TRUE
         IN  f[t] + SumOver(f, S \ {t})

\* the sum of the rating table minus INITIAL_ELO per team, in exact arithmetic
RatingDrift ==
    SumOver(team_elos, DOMAIN team_elos) -
        Cardinality(DOMAIN team_elos) * F(INITIAL_ELO)

\* a processed match stores update_elo(home + bonus, away, result)[0] - bonus
\* for the home team and the second component for the away team
StoresWithoutBonus ==
    ProcessMatch =>
        LET row == target_team[idx + 1]
            new == update_elo(FAdd(StoredElo(team_elos, row.home_team),
                                   F(HOME_ADVANTAGE)),
                              StoredElo(team_elos, row.away_team),
                              MatchResult(row), ELO_K_FACTOR, ELO_SCALING)
        IN  /\ team_elos'[row.home_team] = FSub(new[1], F(HOME_ADVANTAGE))
            /\ team_elos'[row.away_team] = new[2]

\* C3 as stated: stored ratings never include the home-advantage bonus, and
\* after any sequence of replayed matches the sum of the rating table equals
\* INITIAL_ELO times the number of teams in it.
C3_SumExact == [](RatingDrift = 0) /\ [][StoresWithoutBonus]_vars

\* C3 amended: stored ratings never include the home-advantage bonus, and the
\* sum of the rating table equals INITIAL_ELO times the number of teams up to
\* float rounding: within 2 units in the last place of a rating per processed
\* match.
C3_SumRounded ==
    /\ [](Abs(RatingDrift) <= 2 * idx * Ulp(F(INITIAL_ELO)))
    /\ [][StoresWithoutBonus]_vars

\* C3 witness: three matches were replayed, the table holds three teams and
\* the home team of the last match won it.
C3_Witness ==
    /\ pc = "match_loop"
    /\ idx = 3
    /\ Cardinality(DOMAIN team_elos) = 3
    /\ target_team[3].home_score > target_team[3].away_score

\* C4: when the home and the away team have equal stored ratings, the home
\* team's expected win probability used for the update exceeds 0.5, and a draw
\* lowers the home team's stored rating and raises the away team's.
C4_EqualRatingsDraw ==
    [][ProcessMatch =>
        LET row  == target_team[idx + 1]
            home == StoredElo(team_elos, row.home_team)
            away == StoredElo(team_elos, row.away_team)
        IN  home = away =>
              /\ win_probability(FAdd(home, F(HOME_ADVANTAGE)), away,
                                 ELO_SCALING) > Unit \div 2
              /\ row.home_score = row.away_score =>
                    /\ team_elos'[row.home_team] < home
                    /\ team_elos'[row.away_team] > away]_vars

\* C4 witness: a draw between two teams of equal stored rating was processed:
\* the first row of the replay, both teams at INITIAL_ELO before it.
C4_Witness ==
    /\ pc = "match_loop"
    /\ idx = 1
    /\ target_team[1].home_score = target_team[1].away_score
    /\ team_elos[target_team[1].home_team] < F(INITIAL_ELO)
    /\ team_elos[target_team[1].away_team] > F(INITIAL_ELO)

\* the history so far: one entry per processed row, in the rows' round order,
\* none a forecast, the last one holding the tracked team's stored rating
HistoryMatchesRows ==
    team_name # "none" =>
        /\ Len(elo_history) = idx
        /\ \A k \in 1..idx :
              /\ elo_history[k].round = target_team[k].round
              /\ elo_history[k].is_forecast = FALSE
        /\ \A j, k \in 1..idx :
              j < k => elo_history[j].round <= elo_history[k].round
        /\ idx > 0 => elo_history[idx].elo_score = team_elos[team_name]

\* the returned history: as many entries as the table has matches of the team
HistoryComplete ==
    pc \in {"returned", "team_loop"} /\ team_name # "none" =>
        Len(elo_history) = Cardinality(TeamRows(team_df, team_name))

\* within one replay the history only grows at its end
HistoryAppendOnly ==
    team_name' = team_name /\ pc = "match_loop" =>
        /\ Len(elo_history') >= Len(elo_history)
        /\ SubSeq(elo_history', 1, Len(elo_history)) = elo_history

\* C5: analyze_team returns an append-only history with exactly one entry per
\* match involving the team, in ascending round order, each tagged
\* is_forecast = False and carrying the team's stored rating right after that
\* match; a team with zero matches yields an empty history.
C5_History ==
    /\ [](HistoryMatchesRows /\ HistoryComplete)
    /\ [][HistoryAppendOnly]_vars

\* C5 witness: analyze_team returned a history of two entries of different
\* rounds and different ratings for a team with two matches.
C5_Witness ==
    /\ pc = "returned"
    /\ caller = "direct"
    /\ Len(elo_history) = 2
    /\ elo_history[1].round < elo_history[2].round
    /\ elo_history[1].elo_score # elo_history[2].elo_score

TeamsInSchedule ==
    {x.home_team : x \in schedule_df} \cup {x.away_team : x \in schedule_df}

\* the rows of the history that count for a team
OwnEntries(t) ==
    {k \in DOMAIN elo_history_df :
        elo_history_df[k].team = t /\ elo_history_df[k].is_forecast = FALSE}

\* C6: forecast_all_matches gives every team of the schedule a rating: that of
\* an entry of maximum round among its non-forecast history entries, or
\* INITIAL_ELO when it has none; no team is left without a rating.
C6_RatingLookup ==
    pc \in {"fixture_loop", "forecast_done"} =>
        /\ DOMAIN fc_team_elos = TeamsInSchedule
        /\ \A t \in TeamsInSchedule :
              IF OwnEntries(t) # {}
              THEN \E k \in OwnEntries(t) :
                      /\ \A j \in OwnEntries(t) :
                            elo_history_df[j].round <= elo_history_df[k].round
                      /\ fc_team_elos[t] = elo_history_df[k].elo_score
              ELSE fc_team_elos[t] = F(INITIAL_ELO)

\* C6 witness: the schedule pairs a team with two history entries of different
\* rounds and ratings with a team that has no history entry.
C6_Witness ==
    /\ pc = "fixture_loop"
    /\ \E t, u \in TeamsInSchedule :
          /\ OwnEntries(u) = {}
          /\ fc_team_elos[u] = F(INITIAL_ELO)
          /\ \E j, k \in OwnEntries(t) :
                /\ elo_history_df[j].round < elo_history_df[k].round
                /\ elo_history_df[j].elo_score # elo_history_df[k].elo_score
                /\ fc_team_elos[t] = elo_history_df[k].elo_score

ScheduleRoundsPresent == {x.round : x \in schedule_df}

\* the two smallest distinct round numbers of the schedule
TwoSmallestRounds ==
    IF ScheduleRoundsPresent = {} THEN {}
    ELSE LET first == SetMin(ScheduleRoundsPresent)
             rest  == ScheduleRoundsPresent \ {first}
         IN  IF rest = {} THEN {first} ELSE {first, SetMin(rest)}

ForecastFixtures == {matches[k] : k \in DOMAIN matches}

HomeProbTimes100(x) ==
    FMulInt(100,
        win_probability(
            FAdd(Get(fc_team_elos, x.home_team, F(INITIAL_ELO)), F(HOME_ADVANTAGE)),
            Get(fc_team_elos, x.away_team, F(INITIAL_ELO)), ELO_SCALING))

IsPercent(str) == Len(str) = 2 /\ str[1] \in 0..100 /\ str[2] = "%"

\* C8: every processed fixture of the window has exactly two rows, the home
\* team's and then the away team's; the home percentage is the home-adjusted
\* win probability rounded to an integer in 0..100, the away percentage its
\* complement to 100, and in each row win_probability and
\* opponent_win_probability add up to 100, the home row carrying the home
\* percentage and the away row the away percentage.
C8_TwoRowsPerFixture ==
    pc \in {"fixture_loop", "forecast_done"} =>
        /\ Len(rows) = 2 * fidx
        /\ pc = "forecast_done" => fidx = Len(matches)
        /\ \A k \in 1..fidx :
              LET x  == matches[k]
                  hr == rows[2 * k - 1]
                  ar == rows[2 * k]
                  hp == hr.home_win_probability
                  ap == hr.away_win_probability
              IN  /\ \A r \in {hr, ar} :
                        /\ r.home_team = x.home_team /\ r.away_team = x.away_team
                        /\ r.round = x.round /\ r.date = x.date
                        /\ r.home_win_probability = hp
                        /\ r.away_win_probability = ap
                        /\ IsPercent(r.win_probability)
                        /\ IsPercent(r.opponent_win_probability)
                        /\ r.win_probability[1] + r.opponent_win_probability[1] = 100
                  /\ IsPercent(hp) /\ IsPercent(ap)
                  /\ hp[1] + ap[1] = 100
                  /\ 2 * Abs(HomeProbTimes100(x) - F(hp[1])) <= Unit
                  /\ hr.team = x.home_team /\ hr.opponent = x.away_team
                  /\ ar.team = x.away_team /\ ar.opponent = x.home_team
                  /\ hr.win_probability = hp
                  /\ ar.win_probability = ap

\* C8 witness: forecast_all_matches returned four rows for two fixtures, the
\* first fixture's home team at more than 50 percent.
C8_Witness ==
    /\ pc = "forecast_done"
    /\ Len(matches) = 2
    /\ Len(rows) = 4
    /\ rows[1].win_probability[1] > 50
    /\ rows[2].win_probability[1] < 50

\* the rows of the table that carry the scorer's position tag
TaggedPlayers == {i \in DOMAIN df : df[i].main_pos = scorer}

KeptPlayers == {filtered_df[k].player : k \in DOMAIN filtered_df}

\* m is the median of the tagged players' minutes, their number being odd:
\* fewer than half of them lie below m and fewer than half above
IsMiddleMinutes(m) ==
    /\ 2 * Cardinality({i \in TaggedPlayers : df[i].playing_time_min < m})
          < Cardinality(TaggedPlayers)
    /\ 2 * Cardinality({i \in TaggedPlayers : df[i].playing_time_min > m})
          < Cardinality(TaggedPlayers)

\* C9: filter_players keeps rows of the scorer's position only, in table
\* order; when the position subset has an odd number of players (playing
\* times present), the kept players are exactly those of the subset whose
\* playing time is at least the median of the subset: strictly lower ones are
\* dropped, ties at the median are kept.
C9_MedianPerPosition ==
    pc = "filtered" =>
        /\ KeptPlayers \subseteq TaggedPlayers
        /\ \A j, k \in DOMAIN filtered_df :
              j < k => filtered_df[j].player < filtered_df[k].player
        /\ \A k \in DOMAIN filtered_df : filtered_df[k] = df[filtered_df[k].player]
        /\ (/\ Cardinality(TaggedPlayers) % 2 = 1
            /\ \A i \in TaggedPlayers : ~IsNaN(df[i].playing_time_min))
           => \E i \in TaggedPlayers :
                 LET m == df[i].playing_time_min
                 IN  /\ IsMiddleMinutes(m)
                     /\ KeptPlayers =
                           {j \in TaggedPlayers : df[j].playing_time_min >= m}

\* C9 witness: three of the five players carry the tag, two of them tie at the
\* subset's median of 90 and are kept, the third is below it and dropped, and
\* the other position's players all played 60.
C9_Witness ==
    /\ pc = "filtered"
    /\ Len(df) = 5
    /\ Cardinality(TaggedPlayers) = 3
    /\ Cardinality(KeptPlayers) = 2
    /\ \A i \in KeptPlayers : df[i].playing_time_min = F(90)
    /\ \A i \in DOMAIN df \ KeptPlayers : df[i].playing_time_min = F(60)

PresentIndexes == {i \in DOMAIN series : ~IsNaN(series[i])}

RangeDiffers ==
    /\ PresentIndexes # {}
    /\ SeriesMin(series) # SeriesMax(series)

\* C10 as stated: for a series whose minimum and maximum differ, every output
\* value of normalize lies in [0, 1], every minimum maps to 0, every maximum
\* to 1, and the order of the values is preserved.
C10_NormalizeAll ==
    pc = "normalized" /\ RangeDiffers =>
        /\ DOMAIN norm_ret = DOMAIN series
        /\ \A i \in DOMAIN series :
              /\ ~IsNaN(norm_ret[i])
              /\ 0 <= norm_ret[i] /\ norm_ret[i] <= F(1)
        /\ \A i \in PresentIndexes :
              /\ series[i] = SeriesMin(series) => norm_ret[i] = 0
              /\ series[i] = SeriesMax(series) => norm_ret[i] = F(1)
        /\ \A i, j \in PresentIndexes :
              series[i] <= series[j] => norm_ret[i] <= norm_ret[j]

\* C10 amended: for a series whose minimum and maximum differ, every output
\* value of normalize that is not missing lies in [0, 1], every minimum maps
\* to 0, every maximum to 1, and the order of the values is preserved
\* (x <= y gives n(x) <= n(y)); a missing input value stays missing.
C10_NormalizePresent ==
    pc = "normalized" /\ RangeDiffers =>
        /\ DOMAIN norm_ret = DOMAIN series
        /\ \A i \in DOMAIN series \ PresentIndexes : IsNaN(norm_ret[i])
        /\ \A i \in PresentIndexes :
              /\ ~IsNaN(norm_ret[i])
              /\ 0 <= norm_ret[i] /\ norm_ret[i] <= F(1)
              /\ series[i] = SeriesMin(series) => norm_ret[i] = 0
              /\ series[i] = SeriesMax(series) => norm_ret[i] = F(1)
        /\ \A i, j \in PresentIndexes :
              series[i] <= series[j] => norm_ret[i] <= norm_ret[j]
        /\ series = <<F(0), F(5), F(10)>> => norm_ret = <<0, Unit \div 2, F(1)>>

\* C10 witness: normalize returned for a series with a minimum of 5, a
\* maximum of 10 and a value in between.
C10_Witness ==
    /\ pc = "normalized"
    /\ Len(series) = 3
    /\ series[1] = F(10) /\ series[3] = F(5)
    /\ series[2] > F(5) /\ series[2] < F(10)
    /\ norm_ret[1] = F(1) /\ norm_ret[3] = 0
    /\ norm_ret[2] > 0 /\ norm_ret[2] < F(1)

\* a column without two different values (missing values apart)
ConstantColumn(col) == SeriesMax(col) = SeriesMin(col)

\* C11: min-max normalization of a constant column gives the NaN marker on
\* every row, never an ordinary number, and the marker propagates: once the
\* score is computed, the score of every player of the frame is NaN, in the
\* frame and in the rows top_n returns.
C11_ConstantColumnIsNaN ==
    pc \in {"prepared", "scored", "ranked"} =>
        \A c \in DOMAIN columns_to_scale :
            ConstantColumn(Column(filtered_df, columns_to_scale[c])) =>
                /\ \A i \in DOMAIN filtered_df :
                      /\ IsNaN(filtered_df[i][NormColumn(columns_to_scale[c])])
                      /\ pc # "prepared" => IsNaN(filtered_df[i].score)
                /\ pc = "ranked" =>
                      \A k \in DOMAIN top_ret.rows : IsNaN(top_ret.rows[k].score)

\* two players are ranked, one metric is constant among the filtered players
\* and the other is not
C11_Witness ==
    /\ pc = "ranked"
    /\ Len(top_ret.rows) >= 2
    /\ ConstantColumn(Column(filtered_df, "g_minus_pkgls_per90"))
    /\ ~ConstantColumn(Column(filtered_df, "gls_per90"))
    /\ \E i \in DOMAIN filtered_df :
          ~IsNaN(filtered_df[i].gls_per90_norm) /\ filtered_df[i].gls_per90_norm > 0

\* the IQR rule in exact arithmetic, for a column of whole numbers: eight times
\* the fences Q1 - 1.5 * IQR and Q3 + 1.5 * IQR
ExactQuantile4(col, quarters) ==
    LET v    == Present(col)
        pos  == (Len(v) - 1) * quarters
        prev == pos \div 4 + 1
        next == IF prev < Len(v) THEN prev + 1 ELSE Len(v)
    IN  4 * KthSmallest(v, prev)
            + (pos % 4) * (KthSmallest(v, next) - KthSmallest(v, prev))

ExactOutlier(col) ==
    /\ Present(col) # <<>>
    /\ LET q1  == ExactQuantile4(col, 1)
           q3  == ExactQuantile4(col, 3)
       IN  \E i \in DOMAIN col :
              /\ ~IsNaN(col[i])
              /\ \/ 8 * col[i] < 2 * q1 - 3 * (q3 - q1)
                 \/ 8 * col[i] > 2 * q3 + 3 * (q3 - q1)

\* what smart_scale is to write for a column
ExpectedNorm(col) ==
    IF ExactOutlier(col)
    THEN normalize([i \in DOMAIN col |->
             log1p(IF IsNaN(col[i]) THEN 0 ELSE Max2(col[i], 0))])
    ELSE normalize(col)

\* C12: smart_scale chooses its path by the IQR rule on the column it is
\* given: without a value below Q1 - 1.5 * IQR or above Q3 + 1.5 * IQR the
\* column gls_per90_norm it writes is normalize(column); with such a value it
\* is normalize(log1p(column, negatives clamped to 0, missing values 0)).  The
\* frame keeps its rows and every other column keeps its values.
C12_SmartScale ==
    [][pc = "start" /\ pc' = "scaled" =>
        /\ DOMAIN filtered_df' = DOMAIN filtered_df
        /\ \A i \in DOMAIN filtered_df :
              /\ DOMAIN filtered_df'[i] = DOMAIN filtered_df[i] \cup {"gls_per90_norm"}
              /\ \A f \in DOMAIN filtered_df[i] : filtered_df'[i][f] = filtered_df[i][f]
              /\ filtered_df'[i].gls_per90_norm =
                     ExpectedNorm(Column(filtered_df, "gls_per90"))[i]]_vars

\* the log path was taken on a column with a missing value and a value below
\* the lower fence: the missing value became 0 and a middle value lies
\* strictly between 0 and 1
C12_Witness ==
    /\ pc = "scaled"
    /\ ExactOutlier(Column(filtered_df, "gls_per90"))
    /\ \E i \in DOMAIN filtered_df :
          IsNaN(filtered_df[i].gls_per90) /\ filtered_df[i].gls_per90_norm = 0
    /\ \E i \in DOMAIN filtered_df : filtered_df[i].gls_per90 < 0
    /\ \E i \in DOMAIN filtered_df :
          filtered_df[i].gls_per90_norm > 0 /\ filtered_df[i].gls_per90_norm < F(1)

\* the number of rows top_n is to return
TopCount == IF top_ret.n < Len(filtered_df) THEN top_ret.n ELSE Len(filtered_df)

\* the rows top_n returned are rows of the frame, none of them twice
TopRowsDistinct ==
    /\ \A k \in DOMAIN top_ret.rows :
          \E i \in DOMAIN filtered_df : top_ret.rows[k] = filtered_df[i]
    /\ \A j, k \in DOMAIN top_ret.rows :
          j # k => top_ret.rows[j].player # top_ret.rows[k].player

\* a table of five forwards asked for its top three gives three rows
FiveForwardsTopThree ==
    (/\ Len(df) = 5
     /\ \A i \in DOMAIN df :
           df[i].main_pos = "FW" /\ ~IsNaN(df[i].playing_time_min)
     /\ top_ret.n = 3) => Len(top_ret.rows) = 3

\* C13 as stated: top_n(n) returns min(n, filtered players) rows, each score
\* at least the next one, no player twice, three rows for five forwards.
C13_TopNDescending ==
    pc = "ranked" =>
        /\ Len(top_ret.rows) = TopCount
        /\ TopRowsDistinct
        /\ FiveForwardsTopThree
        /\ \A k \in 1..(Len(top_ret.rows) - 1) :
              FGe(top_ret.rows[k].score, top_ret.rows[k + 1].score)

\* C13, amended: top_n(n) returns min(n, filtered players) rows of the frame,
\* no player twice, three rows for five forwards with recorded minutes; the
\* rows with a score stand first, each score at least that of the rows after
\* it, and the rows whose score is missing (NaN) stand last; no row left out
\* would have had to stand before a returned one.
C13_TopNDescendingNaNLast ==
    pc = "ranked" =>
        /\ Len(top_ret.rows) = TopCount
        /\ TopRowsDistinct
        /\ FiveForwardsTopThree
        /\ \A j, k \in DOMAIN top_ret.rows :
              j < k => ScoreBefore(top_ret.rows[j].score, top_ret.rows[k].score)
        /\ \A i \in DOMAIN filtered_df :
              (\A k \in DOMAIN top_ret.rows : top_ret.rows[k].player # filtered_df[i].player)
                  => \A k \in DOMAIN top_ret.rows :
                        ScoreBefore(top_ret.rows[k].score, filtered_df[i].score)

\* five forwards, top_n(3): three rows of three different scores, and a
\* player with a lower score left out
C13_Witness ==
    /\ pc = "ranked"
    /\ Len(df) = 5
    /\ top_ret.n = 3
    /\ Len(top_ret.rows) = 3
    /\ ~IsNaN(top_ret.rows[3].score)
    /\ top_ret.rows[1].score > top_ret.rows[2].score
    /\ top_ret.rows[2].score > top_ret.rows[3].score
    /\ \E i \in DOMAIN filtered_df :
          ~IsNaN(filtered_df[i].score) /\ filtered_df[i].score < top_ret.rows[3].score

\* the data files that are missing or lack a column
MissingInputs == DataFiles \ complete

\* C14: a missing required input (file or column) is not fatal: the run never
\* ends with an unhandled error; whenever a prepare step met a missing input
\* it printed its "Missing ..." message, and the run went on to the next step.
C14_MissingInputNonFatal ==
    /\ pc # "unhandled_error"
    /\ (pc # "start" /\ {matches_path, schedule_path} \cap MissingInputs # {}) =>
           \E k \in DOMAIN printed :
               printed[k] = "Missing raw data files required for Elo computation."
    /\ (pc \notin {"start", "elo_prepared"} /\ raw_path \in MissingInputs) =>
           \E k \in DOMAIN printed :
               printed[k] = "Missing raw player data for scoring."

\* the row forecast is to give for a fixture, an unknown team rated INITIAL_ELO
FallbackRow(row) ==
    ForecastRow([t \in Teams |-> Get(wr_team_elos, t, F(INITIAL_ELO))],
                row, wr_team_name)

\* C15: WinRateForecast.forecast falls back to INITIAL_ELO for a team without
\* an entry in the preloaded mapping: it never fails on the lookup, and the
\* row of every fixture processed is the one computed with INITIAL_ELO for the
\* unknown team; on return there is one row per fixture of the window.
C15_UnknownTeamFallback ==
    /\ pc # "KeyError"
    /\ \A k \in DOMAIN forecast_rows :
          forecast_rows[k] = FallbackRow(future_matches[k])
    /\ pc = "forecast_returned" => Len(forecast_rows) = Len(future_matches)

\* the tracked team's rating before its k-th row, read from its history
TrackedBefore(k) ==
    IF k = 1 THEN F(INITIAL_ELO) ELSE elo_history[k - 1].elo_score

\* team o's rating in the tracked team's replay after k of its rows:
\* INITIAL_ELO, changed by the rows among the first k that o played in
RECURSIVE OpponentElo(_, _)
OpponentElo(o, k) ==
    IF k = 0 THEN F(INITIAL_ELO)
    ELSE LET row  == target_team[k]
             prev == OpponentElo(o, k - 1)
             res  == MatchResult(row)
         IN  IF o = row.away_team
             THEN update_elo(FAdd(TrackedBefore(k), F(HOME_ADVANTAGE)), prev,
                             res, ELO_K_FACTOR, ELO_SCALING)[2]
             ELSE IF o = row.home_team
             THEN FSub(update_elo(FAdd(prev, F(HOME_ADVANTAGE)), TrackedBefore(k),
                                  res, ELO_K_FACTOR, ELO_SCALING)[1],
                       F(HOME_ADVANTAGE))
             ELSE prev

\* the tracked team's rating after its k-th row, from its rating before and
\* the opponent's rating in this replay
TrackedAfter(k) ==
    LET row == target_team[k]
        res == MatchResult(row)
    IN  IF team_name = row.home_team
        THEN FSub(update_elo(FAdd(TrackedBefore(k), F(HOME_ADVANTAGE)),
                             OpponentElo(row.away_team, k - 1),
                             res, ELO_K_FACTOR, ELO_SCALING)[1],
                  F(HOME_ADVANTAGE))
        ELSE update_elo(FAdd(OpponentElo(row.home_team, k - 1), F(HOME_ADVANTAGE)),
                        TrackedBefore(k), res, ELO_K_FACTOR, ELO_SCALING)[2]

\* C16: the rating table of analyze_team belongs to one replay of one tracked
\* team T.  Only T's matches are replayed; an opponent is in the table exactly
\* when T has met it in this replay, and its rating is INITIAL_ELO changed
\* only by the earlier matches between T and that opponent, whatever else the
\* opponent played and whichever replays analyze_all_teams ran before; so each
\* entry of T's history follows from T's own earlier matches alone (the
\* ratings are compared when the replay has processed its last row).
C16_TableLocalToReplay ==
    team_name # "none" =>
        /\ \A k \in DOMAIN target_team :
              team_name \in {target_team[k].home_team, target_team[k].away_team}
        /\ \A o \in Teams \ {team_name} :
              o \in DOMAIN team_elos <=>
                  \E k \in 1..idx :
                      o \in {target_team[k].home_team, target_team[k].away_team}
        /\ Len(elo_history) = idx
        /\ (pc = "match_loop" /\ idx = Len(target_team)) =>
              /\ \A o \in Teams \ {team_name} :
                    StoredElo(team_elos, o) = OpponentElo(o, idx)
              /\ \A k \in 1..idx : elo_history[k].elo_score = TrackedAfter(k)

\* analyze_all_teams replays B after A: B has met A twice, A has also played
\* C, and A's rating in B's table has moved from INITIAL_ELO
C16_Witness ==
    /\ pc = "match_loop"
    /\ caller = "all"
    /\ team_name = "B"
    /\ all_records # <<>>
    /\ idx = 2
    /\ idx = Len(target_team)
    /\ \A k \in 1..2 : "A" \in {target_team[k].home_team, target_team[k].away_team}
    /\ \E m \in team_df : {m.home_team, m.away_team} = {"A", "C"}
    /\ team_elos["A"] # F(INITIAL_ELO)

=============================================================================
